---------------------------- MODULE Spec2Model ----------------------------
(***************************************************************************)
(* A model of the CHIP-8 virtual machine core of ArturKos/CHIP-8: the      *)
(* class Chip8 (chip-8.hpp, chip-8.cpp) and the calls its driver main()    *)
(* makes on it.  The machine state is the class's fields; every public     *)
(* method is one action; emulate_cycle is translated case by case.         *)
(***************************************************************************)
EXTENDS Integers, Sequences, FiniteSets, TLC

(***************************************************************************)
(* Program constants (chip-8.hpp).                                         *)
(***************************************************************************)
CHIP8_MEMORY_SIZE == 4096
CHIP8_FONT_BUFFER_SIZE == 80
CHIP8_FONT_START_ADDRESS_IN_MEMORY == 80
CHIP8_REGISTERS_COUNT == 16
CHIP8_STACK_SIZE == 16
CHIP8_SCREEN_WIDTH == 64
CHIP8_SCREEN_HEIGHT == 32
CHIP8_VIDEO_BUFFER_SIZE == CHIP8_SCREEN_WIDTH * CHIP8_SCREEN_HEIGHT
CHIP8_START_PROGRAM_ADDRESS == 512
CHIP8_KEYBOARD_SIZE == 16

(***************************************************************************)
(* Bounds of the exploration.                                              *)
(***************************************************************************)
\* emulate_cycle is called at most MaxCycles times in one session.
MaxCycles == 22
\* set_key is called with the key indices 0..MaxKey (and with the invalid 16).
MaxKey == 1

VARIABLES
    memory,           \* uint8_t memory[4096], held as its non-zero cells
    V,                \* uint8_t V[16]
    I,                \* uint16_t I
    pc,               \* uint16_t pc
    stack,            \* uint16_t stack[16]
    sp,               \* uint8_t sp
    delayTimer,       \* uint8_t delayTimer
    soundTimer,       \* uint8_t soundTimer
    gfx,              \* uint8_t gfx[64 * 32], held as its non-zero cells
    key,              \* uint8_t key[16]
    draw_flag,        \* bool draw_flag
    loaded_rom_size,  \* uint16_t loaded_rom_size
    running,          \* main(): load_rom has returned true, the loop is entered
    cycles,           \* number of emulate_cycle calls made so far
    last,             \* what the last emulate_cycle call printed and touched
    pending           \* return addresses of the CALLs not yet returned from

machine == <<memory, V, I, pc, stack, sp, delayTimer, soundTimer, gfx, key,
             draw_flag>>
vars == <<memory, V, I, pc, stack, sp, delayTimer, soundTimer, gfx, key,
          draw_flag, loaded_rom_size, running, cycles, last, pending>>

(***************************************************************************)
(* Fixed-width arithmetic and bit operations of the C++ code.              *)
(***************************************************************************)
Byte == 0..255

U8(n) == n % 256

U16(n) == n % 65536

Pow2(k) == 2 ^ k

\* bit k (0 = least significant) of n
Bit(n, k) == (n \div Pow2(k)) % 2

RECURSIVE BitAnd(_, _)
BitAnd(a, b) ==
    IF a = 0 \/ b = 0 THEN 0
    ELSE (a % 2) * (b % 2) + 2 * BitAnd(a \div 2, b \div 2)

RECURSIVE BitOr(_, _)
BitOr(a, b) ==
    IF a = 0 THEN b
    ELSE IF b = 0 THEN a
    ELSE (IF a % 2 = 1 \/ b % 2 = 1 THEN 1 ELSE 0)
         + 2 * BitOr(a \div 2, b \div 2)

RECURSIVE BitXor(_, _)
BitXor(a, b) ==
    IF a = 0 THEN b
    ELSE IF b = 0 THEN a
    ELSE ((a + b) % 2) + 2 * BitXor(a \div 2, b \div 2)

\* the operand fields of an opcode
OpX(opcode) == BitAnd(opcode, 3840) \div 256

OpY(opcode) == BitAnd(opcode, 240) \div 16

OpN(opcode) == BitAnd(opcode, 15)

OpNN(opcode) == BitAnd(opcode, 255)

OpNNN(opcode) == BitAnd(opcode, 4095)

(***************************************************************************)
(* memory and gfx are mostly zero: each is held as the function from the   *)
(* indices of its non-zero cells to their values.                          *)
(***************************************************************************)
\* arr[i]
Cell(arr, i) == IF i \in DOMAIN arr THEN arr[i] ELSE 0

\* an array that is zero everywhere
Zeroed == << >>

\* arr[i] = b
Store(arr, i, b) ==
    IF b = 0
    THEN [j \in DOMAIN arr \ {i} |-> arr[j]] @@ Zeroed
    ELSE (i :> b) @@ arr

InMemory(addr) == addr >= 0 /\ addr < CHIP8_MEMORY_SIZE

(***************************************************************************)
(* The font table and the constructor.                                     *)
(***************************************************************************)
sprite_font ==
    << 240, 144, 144, 144, 240,
        32,  96,  32,  32, 112,
       240,  16, 240, 128, 240,
       240,  16, 240,  16, 240,
       144, 144, 240,  16,  16,
       240, 128, 240,  16, 240,
       240, 128, 240, 144, 240,
       240,  16,  32,  64,  64,
       240, 144, 240, 144, 240,
       240, 144, 240,  16, 240,
       240, 144, 240, 144, 144,
       224, 144, 224, 144, 224,
       240, 128, 128, 128, 240,
       224, 144, 144, 144, 224,
       240, 128, 240, 128, 240,
       240, 128, 240, 128, 128 >>

\* memory[0x50 + i] = sprite_font[i] for i < 80
copy_sprite_font_into_memory(mem) ==
    LET font(a) == sprite_font[a - CHIP8_FONT_START_ADDRESS_IN_MEMORY + 1]
        range   == { CHIP8_FONT_START_ADDRESS_IN_MEMORY + i :
                       i \in 0..(CHIP8_FONT_BUFFER_SIZE - 1) }
    IN  [a \in { b \in range : font(b) # 0 } |-> font(a)]
        @@ [a \in DOMAIN mem \ range |-> mem[a]]

\* what the last emulate_cycle call printed and touched: whether it fetched, the
\* opcode and the pc of the "Opcode: ... (PC: ...)" line, the error it reported,
\* whether it left by an early return, the array cells it accessed, and the
\* registers and the framebuffer as they were when the call was made
NoCycle ==
    [fetched |-> FALSE, opcode |-> 0, at |-> 0, err |-> "", ret |-> FALSE,
     acc |-> {}, before |-> [V |-> [i \in 0..15 |-> 0], gfx |-> << >>]]

Init ==
    /\ memory = copy_sprite_font_into_memory(Zeroed)
    /\ V = [r \in 0..(CHIP8_REGISTERS_COUNT - 1) |-> 0]
    /\ I = 0
    /\ pc = CHIP8_START_PROGRAM_ADDRESS
    /\ stack = [k \in 0..(CHIP8_STACK_SIZE - 1) |-> 0]
    /\ sp = 0
    /\ delayTimer = 0
    /\ soundTimer = 0
    /\ gfx = Zeroed
    /\ key = [k \in 0..(CHIP8_KEYBOARD_SIZE - 1) |-> 0]
    /\ draw_flag = FALSE
    /\ loaded_rom_size = 0
    /\ running = FALSE
    /\ cycles = 0
    /\ last = NoCycle
    /\ pending = << >>

(***************************************************************************)
(* The machine state as one value, and the outcome of executing one        *)
(* instruction: the new state, whether the instruction left emulate_cycle  *)
(* by "return" (and so skipped the timers), the error it reported and the  *)
(* array cells it accessed, as <<array, "r" or "w", index>>.               *)
(***************************************************************************)
Cur == [memory |-> memory, V |-> V, I |-> I, pc |-> pc, stack |-> stack,
        sp |-> sp, delayTimer |-> delayTimer, soundTimer |-> soundTimer,
        gfx |-> gfx, key |-> key, draw_flag |-> draw_flag]

Out(st, ret, err, acc) == [st |-> st, ret |-> ret, err |-> err, acc |-> acc]

Break(st, acc) == {Out(st, FALSE, "", acc)}

\* An access outside an array is undefined behaviour.  With the field order of
\* chip-8.hpp a read past the end of an array finds the next field; any other
\* build may find anything.  UndefLayout is the first outcome, the other
\* members of Undef are the bytes an arbitrary build is given to find.
UndefLayout == 0 - 1

Undef == {UndefLayout, 0, 255}

\* uint16_t stack[16], read at idx; sp and delayTimer follow stack in the class
StackRead(s, idx, u) ==
    IF idx \in DOMAIN s.stack THEN s.stack[idx]
    ELSE IF u = UndefLayout
         THEN (IF idx = CHIP8_STACK_SIZE THEN s.sp + 256 * s.delayTimer ELSE 0)
         ELSE u

\* uint8_t key[16], read at idx; sprite_font follows key in the class
KeyRead(s, idx, u) ==
    IF idx \in DOMAIN s.key THEN s.key[idx]
    ELSE IF u = UndefLayout
         THEN (IF idx - CHIP8_KEYBOARD_SIZE < CHIP8_FONT_BUFFER_SIZE
               THEN sprite_font[idx - CHIP8_KEYBOARD_SIZE + 1] ELSE 0)
         ELSE u

\* uint8_t memory[4096], read at addr; V follows memory in the class
MemRead(s, addr, u) ==
    IF InMemory(addr) THEN Cell(s.memory, addr)
    ELSE IF u = UndefLayout /\ (addr - CHIP8_MEMORY_SIZE) \in DOMAIN s.V
         THEN s.V[addr - CHIP8_MEMORY_SIZE]
         ELSE IF u = UndefLayout THEN 0 ELSE u

\* memory[addr] = b; a store past the end lands in V (UndefLayout) or in
\* nothing the model holds
MemWrite(s, addr, b, u) ==
    IF InMemory(addr) THEN [s EXCEPT !.memory = Store(@, addr, b)]
    ELSE IF u = UndefLayout /\ (addr - CHIP8_MEMORY_SIZE) \in DOMAIN s.V
         THEN [s EXCEPT !.V[addr - CHIP8_MEMORY_SIZE] = b]
         ELSE s

(***************************************************************************)
(* emulate_cycle: fetch.                                                   *)
(***************************************************************************)
\* (the guard off by one: pc = 4095 is let through)
PcOutOfRange_m(s) == s.pc > (CHIP8_MEMORY_SIZE - 1)

PcOutOfRange(s) == s.pc >= (CHIP8_MEMORY_SIZE - 1)

Fetch(s) == Cell(s.memory, s.pc) * 256 + Cell(s.memory, s.pc + 1)

AdvancePc(s) == [s EXCEPT !.pc = U16(s.pc + 2)]

(***************************************************************************)
(* emulate_cycle: the cases of the opcode switch.  s is the state after    *)
(* "pc += 2".                                                              *)
(***************************************************************************)
clear_video_buffer(s) ==
    [s EXCEPT !.gfx = Zeroed]

Case00E0(s) == Break(clear_video_buffer(s), {})

\* (the underflow check left out)
StackEmpty_m(s) == FALSE

StackEmpty(s) == s.sp = 0

\* ("pc = stack[sp]; --sp;": the entry above the top is taken)
Case00EE_m(s) ==
    IF StackEmpty(s)
    THEN {Out(s, TRUE, "Stack Underflow", {})}
    ELSE LET nsp == U8(s.sp - 1)
         IN  { Out([s EXCEPT !.sp = nsp, !.pc = StackRead(s, s.sp, u)],
                   FALSE, "", {<<"stack", "r", s.sp>>}) : u \in Undef }

Case00EE(s) ==
    IF StackEmpty(s)
    THEN {Out(s, TRUE, "Stack Underflow", {})}
    ELSE LET nsp == U8(s.sp - 1)
         IN  { Out([s EXCEPT !.sp = nsp, !.pc = StackRead(s, nsp, u)],
                   FALSE, "", {<<"stack", "r", nsp>>}) : u \in Undef }

Case0Default(s) == {Out(s, FALSE, "Unknown system instruction", {})}

Case1000(s, opcode) == Break([s EXCEPT !.pc = OpNNN(opcode)], {})

\* (the overflow check off by one)
StackFull_m(s) == s.sp > CHIP8_STACK_SIZE

StackFull(s) == s.sp >= CHIP8_STACK_SIZE

Case2000(s, opcode) ==
    IF StackFull(s)
    THEN {Out(s, TRUE, "Stack Overflow", {})}
    ELSE Break([s EXCEPT !.stack = IF s.sp \in DOMAIN s.stack
                                   THEN [s.stack EXCEPT ![s.sp] = s.pc]
                                   ELSE s.stack,
                         !.sp = U8(s.sp + 1),
                         !.pc = OpNNN(opcode)],
               {<<"stack", "w", s.sp>>})

Skip(s) == [s EXCEPT !.pc = U16(s.pc + 2)]

Case3000(s, opcode) ==
    Break(IF s.V[OpX(opcode)] = OpNN(opcode) THEN Skip(s) ELSE s, {})

Case4000(s, opcode) ==
    Break(IF s.V[OpX(opcode)] # OpNN(opcode) THEN Skip(s) ELSE s, {})

Case5000(s, opcode) ==
    Break(IF s.V[OpX(opcode)] = s.V[OpY(opcode)] THEN Skip(s) ELSE s, {})

Case6000(s, opcode) ==
    Break([s EXCEPT !.V[OpX(opcode)] = OpNN(opcode)], {})

Case7000(s, opcode) ==
    Break([s EXCEPT !.V[OpX(opcode)] = U8(@ + OpNN(opcode))], {})

Case8xy0(s, x, y) == Break([s EXCEPT !.V[x] = s.V[y]], {})

Case8xy1(s, x, y) == Break([s EXCEPT !.V[x] = BitOr(@, s.V[y])], {})

Case8xy2(s, x, y) == Break([s EXCEPT !.V[x] = BitAnd(@, s.V[y])], {})

Case8xy3(s, x, y) == Break([s EXCEPT !.V[x] = BitXor(@, s.V[y])], {})

\* (the sum kept in 8 bits: the carry is never seen)
Case8xy4_m(s, x, y) ==
    LET sum == U8(s.V[x] + s.V[y])
        s1  == [s EXCEPT !.V[15] = IF sum > 255 THEN 1 ELSE 0]
    IN  Break([s1 EXCEPT !.V[x] = BitAnd(sum, 255)], {})

\* the flag is stored first, V[x] second, and each statement reads the
\* registers as the statement before it left them
Case8xy4(s, x, y) ==
    LET sum == s.V[x] + s.V[y]
        s1  == [s EXCEPT !.V[15] = IF sum > 255 THEN 1 ELSE 0]
    IN  Break([s1 EXCEPT !.V[x] = BitAnd(sum, 255)], {})

Case8xy5(s, x, y) ==
    LET s1 == [s EXCEPT !.V[15] = IF s.V[x] > s.V[y] THEN 1 ELSE 0]
    IN  Break([s1 EXCEPT !.V[x] = U8(s1.V[x] - s1.V[y])], {})

Case8xy6(s, x) ==
    LET s1 == [s EXCEPT !.V[15] = BitAnd(s.V[x], 1)]
    IN  Break([s1 EXCEPT !.V[x] = s1.V[x] \div 2], {})

Case8xy7(s, x, y) ==
    LET s1 == [s EXCEPT !.V[15] = IF s.V[y] > s.V[x] THEN 1 ELSE 0]
    IN  Break([s1 EXCEPT !.V[x] = U8(s1.V[y] - s1.V[x])], {})

Case8xyE(s, x) ==
    LET s1 == [s EXCEPT !.V[15] = BitAnd(s.V[x], 128) \div 128]
    IN  Break([s1 EXCEPT !.V[x] = U8(s1.V[x] * 2)], {})

Case8Default(s) == {Out(s, FALSE, "Unknown 0x8000 instruction", {})}

Case8000(s, opcode) ==
    LET x == OpX(opcode)
        y == OpY(opcode)
        n == OpN(opcode)
    IN  CASE n = 0  -> Case8xy0(s, x, y)
          [] n = 1  -> Case8xy1(s, x, y)
          [] n = 2  -> Case8xy2(s, x, y)
          [] n = 3  -> Case8xy3(s, x, y)
          [] n = 4  -> Case8xy4(s, x, y)
          [] n = 5  -> Case8xy5(s, x, y)
          [] n = 6  -> Case8xy6(s, x)
          [] n = 7  -> Case8xy7(s, x, y)
          [] n = 14 -> Case8xyE(s, x)
          [] OTHER  -> Case8Default(s)

CaseA000(s, opcode) == Break([s EXCEPT !.I = OpNNN(opcode)], {})

CaseB000(s, opcode) == Break([s EXCEPT !.pc = s.V[0] + OpNNN(opcode)], {})

\* rand() % 256 is any byte
CaseC000(s, opcode) ==
    { Out([s EXCEPT !.V[OpX(opcode)] = BitAnd(r, OpNN(opcode))], FALSE, "", {})
        : r \in Byte }

(***************************************************************************)
(* draw_sprite.  u is the outcome of the reads of memory[I + row] that     *)
(* fall outside memory.                                                    *)
(***************************************************************************)
\* (no break: the rows below the bottom edge wrap to the top)
RowClipped_m(y_coord, row) == FALSE

\* the loop over the rows breaks at the first row below the bottom edge
RowClipped(y_coord, row) == y_coord + row >= 32

\* the rows the outer loop draws
DrawnRows(y_coord, height) ==
    { row \in 0..15 :
        row < height /\ \A r \in 0..row : ~RowClipped(y_coord, r) }

\* "pixel_index" of the inner loop
PixelIndex(x_coord, y_coord, row, col) ==
    LET screen_x == (x_coord + col) % 64
        screen_y == (y_coord + row) % 32
    IN  screen_y * 64 + screen_x

\* (the bits of the row taken from the low end)
SpritePixel_m(sprite_byte, col) == Bit(sprite_byte, col)

\* "sprite_pixel" of the inner loop
SpritePixel(sprite_byte, col) == Bit(sprite_byte, 7 - col)

\* (the test on the sprite pixel alone)
Collides_m(pixel, sprite_pixel) == sprite_pixel = 1

\* "gfx[pixel_index] == 1 && sprite_pixel == 1"
Collides(pixel, sprite_pixel) == pixel = 1 /\ sprite_pixel = 1

SpriteReads(s, y_coord, height) ==
    { <<"memory", "r", s.I + row>> : row \in DrawnRows(y_coord, height) }

\* The two loops visit each framebuffer cell at most once (8 columns that
\* differ modulo 64, at most 15 rows that differ modulo 32), so each visited
\* cell is XORed with its one sprite pixel and VF is 1 iff one visit collided.
draw_sprite(s, x_coord0, y_coord0, height, u) ==
    LET x_coord == x_coord0 % 64
        y_coord == y_coord0 % 32
        s0      == [s EXCEPT !.V[15] = 0]
        visits  == DrawnRows(y_coord, height) \X (0..7)
        index(v) == PixelIndex(x_coord, y_coord, v[1], v[2])
        pixel(v) == SpritePixel(MemRead(s0, s.I + v[1], u), v[2])
        visited == { index(v) : v \in visits }
        visit(p) == CHOOSE v \in visits : index(v) = p
        after(p) == IF p \in visited
                    THEN BitXor(Cell(s.gfx, p), pixel(visit(p)))
                    ELSE Cell(s.gfx, p)
        lit     == { p \in DOMAIN s.gfx \cup visited : after(p) # 0 }
        VF      == IF \E v \in visits :
                         Collides(Cell(s.gfx, index(v)), pixel(v))
                   THEN 1 ELSE 0
        gfx1    == [p \in lit |-> after(p)] @@ Zeroed
    IN  Out([s0 EXCEPT !.V[15] = VF, !.gfx = gfx1, !.draw_flag = TRUE],
            FALSE, "", SpriteReads(s, y_coord, height))

\* (the redraw flag set only when the draw changed a pixel)
CaseD000_m(s, opcode) ==
    { LET o == draw_sprite(s, s.V[OpX(opcode)], s.V[OpY(opcode)],
                           OpN(opcode), u)
      IN  [o EXCEPT !.st.draw_flag = (s.draw_flag \/ o.st.gfx # s.gfx)]
        : u \in Undef }

CaseD000(s, opcode) ==
    { draw_sprite(s, s.V[OpX(opcode)], s.V[OpY(opcode)], OpN(opcode), u)
        : u \in Undef }

(***************************************************************************)
(* The 0xE000 and 0xF000 families.                                         *)
(***************************************************************************)
CaseEx9E(s, x) ==
    { Out(IF KeyRead(s, s.V[x], u) # 0 THEN Skip(s) ELSE s, FALSE, "",
          {<<"key", "r", s.V[x]>>}) : u \in Undef }

CaseExA1(s, x) ==
    { Out(IF KeyRead(s, s.V[x], u) = 0 THEN Skip(s) ELSE s, FALSE, "",
          {<<"key", "r", s.V[x]>>}) : u \in Undef }

CaseEDefault(s) == {Out(s, FALSE, "Unknown E000 instruction", {})}

CaseE000(s, opcode) ==
    LET x  == OpX(opcode)
        nn == OpNN(opcode)
    IN  CASE nn = 158 -> CaseEx9E(s, x)
          [] nn = 161 -> CaseExA1(s, x)
          [] OTHER    -> CaseEDefault(s)

CaseFx07(s, x) == Break([s EXCEPT !.V[x] = s.delayTimer], {})

\* the keys the scan of Fx0A finds pressed
PressedKeys(s) == { i \in 0..(CHIP8_KEYBOARD_SIZE - 1) : s.key[i] # 0 }

\* (the scan without its break: the last hit wins)
FirstPressed_m(s) == CHOOSE i \in PressedKeys(s) : \A j \in PressedKeys(s) : i >= j

\* the key the scan stops at: it runs upwards and breaks at the first hit
FirstPressed(s) == CHOOSE i \in PressedKeys(s) : \A j \in PressedKeys(s) : i <= j

CaseFx0A(s, x) ==
    IF PressedKeys(s) = {}
    THEN Break([s EXCEPT !.pc = U16(s.pc - 2)],
               { <<"key", "r", i>> : i \in 0..(CHIP8_KEYBOARD_SIZE - 1) })
    ELSE Break([s EXCEPT !.V[x] = FirstPressed(s)],
               { <<"key", "r", i>> : i \in 0..FirstPressed(s) })

CaseFx15(s, x) == Break([s EXCEPT !.delayTimer = s.V[x]], {})

CaseFx18(s, x) == Break([s EXCEPT !.soundTimer = s.V[x]], {})

\* (the check off by one: I = 4096 is kept)
CaseFx1E_m(s, x) ==
    LET sum == U16(s.I + s.V[x])
    IN  IF sum > CHIP8_MEMORY_SIZE
        THEN {Out([s EXCEPT !.I = 0], FALSE, "I exceeded memory range", {})}
        ELSE Break([s EXCEPT !.I = sum], {})

CaseFx1E(s, x) ==
    LET sum == U16(s.I + s.V[x])
    IN  IF sum >= CHIP8_MEMORY_SIZE
        THEN {Out([s EXCEPT !.I = 0], FALSE, "I exceeded memory range", {})}
        ELSE Break([s EXCEPT !.I = sum], {})

CaseFx29(s, x) ==
    IF s.V[x] >= 16
    THEN {Out([s EXCEPT !.I = 0], FALSE, "Vx out of font range", {})}
    ELSE Break([s EXCEPT !.I = CHIP8_FONT_START_ADDRESS_IN_MEMORY + s.V[x] * 5],
               {})

\* (the tens digit without its "% 10")
CaseFx33_m(s, x) ==
    LET value == s.V[x]
    IN  { Out(MemWrite(MemWrite(MemWrite(s, s.I, value \div 100, u),
                                s.I + 1, value \div 10, u),
                       s.I + 2, value % 10, u),
              FALSE, "", { <<"memory", "w", s.I + k>> : k \in 0..2 })
            : u \in Undef }

CaseFx33(s, x) ==
    LET value == s.V[x]
    IN  { Out(MemWrite(MemWrite(MemWrite(s, s.I, value \div 100, u),
                                s.I + 1, (value \div 10) % 10, u),
                       s.I + 2, value % 10, u),
              FALSE, "", { <<"memory", "w", s.I + k>> : k \in 0..2 })
            : u \in Undef }

\* (the check off by one: I + x = 4096 is let through)
DumpOutOfRange_m(s, x) == s.I + x > CHIP8_MEMORY_SIZE

\* "I + x >= CHIP8_MEMORY_SIZE" of Fx55 and Fx65
DumpOutOfRange(s, x) == s.I + x >= CHIP8_MEMORY_SIZE

RECURSIVE StoreRegs(_, _, _)
StoreRegs(s, x, i) ==
    IF i > x THEN s
    ELSE StoreRegs([s EXCEPT !.memory = Store(@, s.I + i, s.V[i])], x, i + 1)

CaseFx55(s, x) ==
    IF DumpOutOfRange(s, x)
    THEN {Out(s, TRUE, "I + x exceeded memory range", {})}
    ELSE Break(StoreRegs(s, x, 0), { <<"memory", "w", s.I + i>> : i \in 0..x })

\* (the loop with "i < x": Vx is not loaded)
LoadRegs_m(s, x, i) ==
    [s EXCEPT !.V = [r \in DOMAIN s.V |->
                        IF r >= i /\ r < x THEN Cell(s.memory, s.I + r)
                        ELSE s.V[r]]]

RECURSIVE LoadRegs(_, _, _)
LoadRegs(s, x, i) ==
    IF i > x THEN s
    ELSE LoadRegs([s EXCEPT !.V[i] = Cell(s.memory, s.I + i)], x, i + 1)

CaseFx65(s, x) ==
    IF DumpOutOfRange(s, x)
    THEN {Out(s, TRUE, "I + x exceeded memory range", {})}
    ELSE Break(LoadRegs(s, x, 0), { <<"memory", "r", s.I + i>> : i \in 0..x })

CaseFDefault(s) == {Out(s, FALSE, "Unknown F000 instruction", {})}

CaseF000(s, opcode) ==
    LET x  == OpX(opcode)
        nn == OpNN(opcode)
    IN  CASE nn = 7   -> CaseFx07(s, x)
          [] nn = 10  -> CaseFx0A(s, x)
          [] nn = 21  -> CaseFx15(s, x)
          [] nn = 24  -> CaseFx18(s, x)
          [] nn = 30  -> CaseFx1E(s, x)
          [] nn = 41  -> CaseFx29(s, x)
          [] nn = 51  -> CaseFx33(s, x)
          [] nn = 85  -> CaseFx55(s, x)
          [] nn = 101 -> CaseFx65(s, x)
          [] OTHER    -> CaseFDefault(s)

CaseDefault(s) == {Out(s, FALSE, "Unknown instruction (main switch)", {})}

(***************************************************************************)
(* emulate_cycle: decode and execute, the timers, the whole call.          *)
(***************************************************************************)
Case0000(s, opcode) ==
    CASE opcode = 224 -> Case00E0(s)
      [] opcode = 238 -> Case00EE(s)
      [] OTHER        -> Case0Default(s)

\* switch (opcode & 0xF000)
Execute(s, opcode) ==
    LET family == BitAnd(opcode, 61440) \div 4096
    IN  CASE family = 0  -> Case0000(s, opcode)
          [] family = 1  -> Case1000(s, opcode)
          [] family = 2  -> Case2000(s, opcode)
          [] family = 3  -> Case3000(s, opcode)
          [] family = 4  -> Case4000(s, opcode)
          [] family = 5  -> Case5000(s, opcode)
          [] family = 6  -> Case6000(s, opcode)
          [] family = 7  -> Case7000(s, opcode)
          [] family = 8  -> Case8000(s, opcode)
          [] family = 10 -> CaseA000(s, opcode)
          [] family = 11 -> CaseB000(s, opcode)
          [] family = 12 -> CaseC000(s, opcode)
          [] family = 13 -> CaseD000(s, opcode)
          [] family = 14 -> CaseE000(s, opcode)
          [] family = 15 -> CaseF000(s, opcode)
          [] OTHER       -> CaseDefault(s)

\* (the tick without its "> 0": 0 wraps to 255)
Timers_m(s) ==
    [s EXCEPT !.delayTimer = U8(@ - 1), !.soundTimer = U8(@ - 1)]

Timers(s) ==
    [s EXCEPT !.delayTimer = IF @ > 0 THEN @ - 1 ELSE @,
              !.soundTimer = IF @ > 0 THEN @ - 1 ELSE @]

\* the states in which the call can end, each with the record of the call
emulate_cycle(s) ==
    IF PcOutOfRange(s)
    THEN { [st |-> s,
            log |-> [fetched |-> FALSE, opcode |-> 0, at |-> s.pc,
                     err |-> "pc out of memory range", ret |-> TRUE,
                     acc |-> {}, before |-> [V |-> s.V, gfx |-> s.gfx]]] }
    ELSE LET opcode == Fetch(s)
         IN  { [st  |-> IF o.ret THEN o.st ELSE Timers(o.st),
                log |-> [fetched |-> TRUE, opcode |-> opcode, at |-> s.pc,
                         err |-> o.err, ret |-> o.ret,
                         acc |-> o.acc \cup {<<"memory", "r", s.pc>>,
                                             <<"memory", "r", s.pc + 1>>},
                         before |-> [V |-> s.V, gfx |-> s.gfx]]]
               : o \in Execute(AdvancePc(s), opcode) }

(***************************************************************************)
(* ROM files.  A file is its length in bytes and its leading bytes (the    *)
(* program); the bytes after the program are zero.  A file that cannot be  *)
(* opened has open = FALSE.                                                *)
(***************************************************************************)
\* the two bytes of each opcode of a program, high byte first
Assemble(ops) ==
    [k \in 1..(2 * Len(ops)) |->
        IF k % 2 = 1 THEN ops[(k + 1) \div 2] \div 256 ELSE ops[k \div 2] % 256]

File(ops, size) == [open |-> TRUE, size |-> size, prog |-> Assemble(ops)]

\* a file holding exactly the program
Rom(ops) == File(ops, 2 * Len(ops))

\* the largest file load_rom accepts, holding the program and zeros
FullRom(ops) == File(ops, CHIP8_MEMORY_SIZE - CHIP8_START_PROGRAM_ADDRESS)

NoFile == [open |-> FALSE, size |-> 0, prog |-> <<>>]

\* byte k (from 0) of a file
FileByte(file, k) == IF k < Len(file.prog) THEN file.prog[k + 1] ELSE 0

\* opcodes
Ins(a, b, c, d) == a * 4096 + b * 256 + c * 16 + d

InsNN(a, x, nn) == a * 4096 + x * 256 + nn

InsNNN(a, nnn) == a * 4096 + nnn

(***************************************************************************)
(* load_rom, set_key, render_screen, pc_instruction_overflow.              *)
(***************************************************************************)
\* "loaded_rom_size = file.tellg()": the length, narrowed to uint16_t
RomSize(file) == U16(file.size)

RomTooLarge(size) == size > (CHIP8_MEMORY_SIZE - CHIP8_START_PROGRAM_ADDRESS)

\* file.read(&memory[0x200], size)
ReadRom(mem, file, size) ==
    LET read(a) == /\ a >= CHIP8_START_PROGRAM_ADDRESS
                   /\ a < CHIP8_START_PROGRAM_ADDRESS + size
        kept == { a \in DOMAIN mem : ~read(a) }
        new  == { a \in { CHIP8_START_PROGRAM_ADDRESS + k - 1 :
                              k \in 1..Len(file.prog) } :
                    read(a)
                    /\ FileByte(file, a - CHIP8_START_PROGRAM_ADDRESS) # 0 }
    IN  [a \in kept \cup new |->
            IF read(a) THEN FileByte(file, a - CHIP8_START_PROGRAM_ADDRESS)
            ELSE mem[a]] @@ Zeroed

\* the memory, the loaded_rom_size and the result of load_rom
load_rom(mem, rom_size, file) ==
    IF ~file.open
    THEN [memory |-> mem, loaded_rom_size |-> rom_size, result |-> FALSE]
    ELSE IF RomTooLarge(RomSize(file))
    THEN [memory |-> mem, loaded_rom_size |-> RomSize(file), result |-> FALSE]
    ELSE [memory |-> ReadRom(mem, file, RomSize(file)),
          loaded_rom_size |-> RomSize(file), result |-> TRUE]

pc_instruction_overflow ==
    pc >= (CHIP8_START_PROGRAM_ADDRESS + loaded_rom_size)

\* (the index taken modulo 16 instead of being checked)
set_key_m(keys, key_index, value) ==
    [keys EXCEPT ![key_index % CHIP8_KEYBOARD_SIZE] = value]

set_key(keys, key_index, value) ==
    IF key_index < CHIP8_KEYBOARD_SIZE
    THEN [keys EXCEPT ![key_index] = value]
    ELSE keys

get_screen_pixel(g, x, y) ==
    IF x < 0 \/ x >= CHIP8_SCREEN_WIDTH \/ y < 0 \/ y >= CHIP8_SCREEN_HEIGHT
    THEN 0
    ELSE Cell(g, y * 64 + x)

is_screen_ready_to_redraw == draw_flag

play_sound == soundTimer > 0

render_screen(flag) == IF ~flag THEN flag ELSE FALSE

\* main(): "if (!chip8.load_rom(rom_path)) return 1;" before the loop
LoadRom(files) ==
    /\ ~running
    /\ \E file \in files :
         LET r == load_rom(memory, loaded_rom_size, file)
         IN  /\ memory' = r.memory
             /\ loaded_rom_size' = r.loaded_rom_size
             /\ running' = r.result
    /\ UNCHANGED <<V, I, pc, stack, sp, delayTimer, soundTimer, gfx, key,
                   draw_flag, cycles, last, pending>>

\* the CALLs not yet returned from after a call of emulate_cycle: a CALL
\* that was executed (case 0x2000 left by "break") adds the address after it,
\* a RET that was executed takes the latest away
Outstanding(calls, log) ==
    IF ~log.fetched \/ log.ret THEN calls
    ELSE IF log.opcode \div 4096 = 2 THEN Append(calls, log.at + 2)
    ELSE IF log.opcode = 238 /\ Len(calls) > 0
         THEN SubSeq(calls, 1, Len(calls) - 1)
         ELSE calls

\* main(): one "chip8.emulate_cycle()" of the loop, count is the number the
\* call is given
Emulate(count) ==
    /\ running
    /\ ~pc_instruction_overflow
    /\ \E o \in emulate_cycle(Cur) :
         /\ memory' = o.st.memory
         /\ V' = o.st.V
         /\ I' = o.st.I
         /\ pc' = o.st.pc
         /\ stack' = o.st.stack
         /\ sp' = o.st.sp
         /\ delayTimer' = o.st.delayTimer
         /\ soundTimer' = o.st.soundTimer
         /\ gfx' = o.st.gfx
         /\ key' = o.st.key
         /\ draw_flag' = o.st.draw_flag
         /\ last' = o.log
         /\ pending' = Outstanding(pending, o.log)
    /\ cycles' = count
    /\ UNCHANGED <<loaded_rom_size, running>>

\* the calls of a run of at most MaxCycles calls
EmulateCycle ==
    /\ cycles < MaxCycles
    /\ Emulate(cycles + 1)

\* the calls of a run without end: the loop calls as long as its condition
\* holds, the calls are numbered 1..MaxCycles and again from 1
EmulateCycleOn == Emulate((cycles % MaxCycles) + 1)

\* main(): "chip8.set_key(i, 1)" and "chip8.set_key(i, 0)"
SetKey ==
    /\ running
    /\ \E key_index \in (0..MaxKey) \cup {CHIP8_KEYBOARD_SIZE}, value \in {0, 1} :
         key' = set_key(key, key_index, value)
    /\ UNCHANGED <<memory, V, I, pc, stack, sp, delayTimer, soundTimer, gfx,
                   draw_flag, loaded_rom_size, running, cycles, last,
                   pending>>

\* main(): "chip8.render_screen(false)"
RenderScreen ==
    /\ running
    /\ draw_flag' = render_screen(draw_flag)
    /\ UNCHANGED <<memory, V, I, pc, stack, sp, delayTimer, soundTimer, gfx,
                   key, loaded_rom_size, running, cycles, last, pending>>

\* main(): one "chip8.get_screen_pixel(x, y)" of the redraw, here for the
\* corners of the screen; the call returns a pixel and writes nothing
GetScreenPixel ==
    /\ running
    /\ is_screen_ready_to_redraw
    /\ \E x \in {0, CHIP8_SCREEN_WIDTH - 1}, y \in {0, CHIP8_SCREEN_HEIGHT - 1} :
         get_screen_pixel(gfx, x, y) \in {0, 1}
    /\ UNCHANGED vars

(***************************************************************************)
(* The programs run.                                                       *)
(***************************************************************************)
\* registers and register values the programs use
RegSample == {0, 1, 14, 15}

ValSample == {0, 1, 100, 200, 255}

\* LD Vx,a ; LD Vy,b ; one instruction on Vx and Vy
RegPrograms(family, ns) ==
    { << InsNN(6, x, a), InsNN(6, y, b), Ins(family, x, y, n) >> :
        <<x, y, a, b, n>> \in
            RegSample \X RegSample \X ValSample \X ValSample \X ns }

AluFiles == { Rom(ops) : ops \in RegPrograms(8, {0, 1, 2, 3, 4, 5, 6, 7, 14}) }

\* SE Vx,Vy and SNE Vx,Vy
SkipFiles == { Rom(ops) : ops \in RegPrograms(5, {0}) \cup RegPrograms(9, {0}) }

\* programs that end where the fetch guard decides: a jump to the last
\* addresses of memory, in a file that fills memory to its end
EdgePrograms ==
    { << InsNNN(1, nnn) >> : nnn \in {4093, 4094, 4095} }
    \cup { << InsNN(6, 0, a), InsNNN(11, 4094) >> : a \in {0, 1, 2, 255} }
    \cup { << InsNNN(1, 80) >> }

EdgeFiles == { FullRom(ops) : ops \in EdgePrograms }

\* a chain of n CALLs, each to the instruction after it
CallChain(n, from) ==
    [k \in 1..n |-> InsNNN(2, from + 2 * k)]

\* 17 nested CALLs; a CALL that calls itself; RET on the empty stack; a CALL
\* into a subroutine that returns, and one that returns once too often;
\* three nested CALLs (at 512, 516, 520) followed by three RETs
StackPrograms ==
    { CallChain(17, CHIP8_START_PROGRAM_ADDRESS),
      << InsNNN(2, CHIP8_START_PROGRAM_ADDRESS) >>,
      << 238 >>,
      << InsNNN(2, 516), InsNNN(1, 514), 238 >>,
      << InsNNN(2, 514), 238 >>,
      << InsNNN(2, 516), InsNNN(1, 526), InsNNN(2, 520), 238,
         InsNNN(2, 524), 238, 238 >> }

StackFiles == { Rom(ops) : ops \in StackPrograms }

\* the values the programs start the timers at
TimerSample == {0, 1, 2, 40}

\* LD V0,a ; LD V1,b ; LD DT,V0 ; LD ST,V1
SetTimers(a, b) ==
    << InsNN(6, 0, a), InsNN(6, 1, b), Ins(15, 0, 1, 5), Ins(15, 1, 1, 8) >>

\* the instructions run with the timers going: ones that leave by "break"
\* (CLS, LD, LD I, unknown opcodes), ones that can leave by "return", and
\* LD DT,V2 and LD ST,V2 that set a running timer again (V2 = 0 or 20)
TimedTails ==
    { << 224 >>, << InsNN(6, 2, 9) >>, << 0 >>, << Ins(5, 0, 1, 1) >>,
      << Ins(9, 0, 1, 0) >>, << Ins(15, 0, 15, 15) >>,
      << 238 >>,
      << InsNNN(10, 4095), Ins(15, 1, 5, 5) >>,
      << InsNNN(10, 4095), Ins(15, 1, 6, 5) >>,
      << InsNNN(10, 768), Ins(15, 1, 5, 5) >>,
      << InsNNN(10, 768), Ins(15, 1, 6, 5) >>,
      << Ins(15, 2, 1, 5) >>, << Ins(15, 2, 1, 8) >>,
      << InsNN(6, 2, 20), Ins(15, 2, 1, 5), Ins(15, 2, 1, 8) >>,
      CallChain(17, CHIP8_START_PROGRAM_ADDRESS + 8) }

TimerFiles ==
    { Rom(SetTimers(a, b) \o tail) :
        <<a, b, tail>> \in TimerSample \X TimerSample \X TimedTails }

\* LD Vx,77 ; LD Vx,K
KeyFiles ==
    { Rom(<< InsNN(6, x, 77), Ins(15, x, 0, 10) >>) : x \in RegSample }

\* the addresses the programs point I at: the font, the program itself, free
\* memory, and the last addresses of memory
AddrSample == {80, 512, 768, 4080, 4094, 4095}

\* LD I,nnn ; LD V0,a ; LD Vx,b ; LD [I],V0..Vx ; LD V0,0 ; LD Vx,0 ;
\* LD V0..Vx,[I]   and the same without the two LDs in the middle   and
\* LD I,nnn ; LD V0..Vx,[I] ; LD [I],V0..Vx
DumpPrograms ==
    { << InsNNN(10, nnn), InsNN(6, 0, a), InsNN(6, x, b), Ins(15, x, 5, 5),
         InsNN(6, 0, 0), InsNN(6, x, 0), Ins(15, x, 6, 5) >> :
        <<nnn, x, a, b>> \in AddrSample \X RegSample \X {1, 255} \X {0, 7} }
    \cup { << InsNNN(10, nnn), InsNN(6, 0, a), InsNN(6, x, b), Ins(15, x, 5, 5),
              Ins(15, x, 6, 5) >> :
             <<nnn, x, a, b>> \in AddrSample \X RegSample \X {1, 255} \X {0, 7} }
    \cup { << InsNNN(10, nnn), Ins(15, x, 6, 5), Ins(15, x, 5, 5) >> :
             <<nnn, x>> \in AddrSample \X RegSample }

DumpFiles == { Rom(ops) : ops \in DumpPrograms }

\* where the programs point I for a sprite: font digits 0 and 1, and the last
\* two bytes of memory
SpriteSample == {80, 85, 4094}

\* LD V0,a ; LD V1,b ; LD I,font digit ; DRW V0,V1,n ; DRW V0,V1,n   and
\* LD V0,a ; LD V1,b ; LD I,digit 0 ; DRW V0,V1,5 ; LD I,nnn ; DRW Vx,V1,n ;
\* DRW Vx,V1,n : a sprite drawn twice over what the first DRW left   and
\* CLS alone and CLS after a DRW
DrawPrograms ==
    { << InsNN(6, 0, a), InsNN(6, 1, b), InsNNN(10, 80),
         Ins(13, 0, 1, n), Ins(13, 0, 1, n) >> :
        <<a, b, n>> \in {0, 60, 255} \X {0, 30} \X {0, 5} }
    \cup { << InsNN(6, 0, a), InsNN(6, 1, b), InsNNN(10, 80),
              Ins(13, 0, 1, 5), InsNNN(10, nnn),
              Ins(13, x, 1, n), Ins(13, x, 1, n) >> :
             <<a, b, nnn, x, n>> \in
                 {0, 60} \X {0, 30} \X SpriteSample \X {0, 15} \X {0, 3, 15} }
    \cup { << 224 >>, << InsNNN(10, 80), Ins(13, 0, 0, 5), 224 >> }

DrawFiles == { Rom(ops) : ops \in DrawPrograms }

\* LD Vx,v ; LD I,nnn ; LD B,Vx : every v into free memory, and some v
\* from every sampled register over the font, the program and the last
\* addresses of memory
BcdPrograms ==
    { << InsNN(6, 0, v), InsNNN(10, 768), Ins(15, 0, 3, 3) >> : v \in Byte }
    \cup { << InsNN(6, x, v), InsNNN(10, nnn), Ins(15, x, 3, 3) >> :
             <<x, v, nnn>> \in
                 RegSample \X {7, 234} \X {80, 512, 4093, 4094, 4095} }

BcdFiles == { Rom(ops) : ops \in BcdPrograms }

\* the lengths of the files that are too long: one byte too many, and lengths
\* that do not fit the 16 bits of loaded_rom_size
LongSample == {3585, 4096, 65535, 65536, 65538}

\* LD V0,1 ; JP 0x200 at the head of a file that is too long
LongFiles ==
    { File(<< InsNN(6, 0, 1), InsNNN(1, 512) >>, size) : size \in LongSample }

\* opcodes outside the instruction table: 0nnn, 5xy1, 5xyF, 8xy8, 8xyF,
\* 9xy1, Ex00, Ex9F, Fx00, Fx56
UnknownSample ==
    { 291, Ins(5, 0, 1, 1), Ins(5, 0, 1, 15), Ins(8, 0, 1, 8),
      Ins(8, 0, 1, 15), Ins(9, 0, 1, 1), Ins(14, 0, 0, 0), Ins(14, 0, 9, 15),
      Ins(15, 0, 0, 0), Ins(15, 0, 5, 6) }

\* LD V0,a ; LD V1,b ; an opcode outside the table
UnknownFiles ==
    { Rom(<< InsNN(6, 0, a), InsNN(6, 1, b), op >>) :
        <<a, b, op>> \in {0, 1} \X {0, 1} \X UnknownSample }

\* LD I,nnn ; LD Vx,v ; ADD I,Vx ; ADD I,Vx   and   LD Vx,v ; LD F,Vx
IndexPrograms ==
    { << InsNNN(10, nnn), InsNN(6, x, v), Ins(15, x, 1, 14),
         Ins(15, x, 1, 14) >> :
        <<nnn, x, v>> \in {0, 3586, 3841, 4095} \X {0, 15}
                             \X {0, 1, 254, 255} }
    \cup { << InsNN(6, x, v), Ins(15, x, 2, 9) >> :
             <<x, v>> \in {0, 15} \X {0, 9, 15, 16, 255} }

IndexFiles == { Rom(ops) : ops \in IndexPrograms }

\* LD Vx,v ; SKP Vx   and   LD Vx,v ; SKNP Vx
SkipKeyPrograms ==
    { << InsNN(6, x, v), InsNN(14, x, nn) >> :
        <<x, v, nn>> \in {0, 15} \X {0, 1, 15, 16, 255} \X {158, 161} }

SkipKeyFiles == { Rom(ops) : ops \in SkipKeyPrograms }

Files ==
    AluFiles \cup SkipFiles \cup EdgeFiles \cup StackFiles \cup TimerFiles
    \cup KeyFiles \cup DumpFiles \cup DrawFiles \cup BcdFiles \cup LongFiles
    \cup UnknownFiles \cup IndexFiles \cup SkipKeyFiles
    \cup {NoFile}

Next ==
    \/ LoadRom(Files)
    \/ EmulateCycle
    \/ SetKey
    \/ GetScreenPixel
    \/ RenderScreen

Spec == Init /\ [][Next]_vars

\* programs that run without end with the sound on: LD V1,b ; LD ST,V1 and
\* then a jump to itself, a jump back to the LD ST, or a jump to the last
\* byte of memory (in a file that fills memory), or V0 = 1 and a jump to
\* 4095 + V0 (past the end of memory), and the same with a DRW on the way
SoundPrograms ==
    { << InsNN(6, 1, b), Ins(15, 1, 1, 8), InsNNN(1, nnn) >> :
        <<b, nnn>> \in {0, 1, 5} \X {516, 514, 4095} }
    \cup { << InsNN(6, 1, 5), Ins(15, 1, 1, 8), InsNN(6, 0, 1),
              InsNNN(11, 4095) >> }
    \cup { << InsNN(6, 1, 5), Ins(15, 1, 1, 8), InsNNN(10, 80),
              Ins(13, 0, 0, 5), InsNNN(1, nnn) >> : nnn \in {518, 520, 4095} }

SoundFiles == { FullRom(ops) : ops \in SoundPrograms }

LiveNext ==
    \/ LoadRom(SoundFiles \cup StackFiles)
    \/ EmulateCycleOn
    \/ SetKey
    \/ GetScreenPixel
    \/ RenderScreen

\* a turn of the loop of main(): under the loop's condition the next call of
\* emulate_cycle is made (the steps of LiveNext that count a call are the
\* steps of EmulateCycleOn)
LoopTurn ==
    /\ running
    /\ ~pc_instruction_overflow
    /\ cycles' = (cycles % MaxCycles) + 1

\* the loop of main() goes on calling emulate_cycle as long as its condition
\* holds
LiveSpec == Init /\ [][LiveNext]_vars /\ WF_cycles(LoopTurn)

(***************************************************************************)
(* The properties checked.  A step of emulate_cycle is a step that counts  *)
(* a cycle; last' is then the record of that call.                         *)
(***************************************************************************)
CycleStep == cycles' = cycles + 1

Family(opcode) == opcode \div 4096

\* the step fetched an opcode of the pattern a x y n / a x nn
Ran(log, a) == log.fetched /\ Family(log.opcode) = a

RanXYN(log, a, n) == Ran(log, a) /\ log.opcode % 16 = n

RanXNN(log, a, nn) == Ran(log, a) /\ log.opcode % 256 = nn

X(log) == (log.opcode \div 256) % 16

Y(log) == (log.opcode \div 16) % 16

\* instructions that run no further statement on pc after the fetch
StraightLine(opcode) ==
    /\ Family(opcode) \in {0, 6, 7, 8, 9, 10, 12, 13, 15}
    /\ opcode # 238
    /\ ~(Family(opcode) = 15 /\ opcode % 256 = 10)

\* C1: a call with pc >= 4095 fetches nothing and changes nothing of the
\* machine; a call with pc <= 4094 fetches memory[pc] * 256 + memory[pc + 1]
\* and executes it with pc already advanced by 2 (an instruction that does not
\* touch pc ends at pc + 2, a CALL pushes pc + 2).
C1_FetchGuard ==
    [][CycleStep =>
         IF pc >= 4095
         THEN UNCHANGED machine /\ ~last'.fetched
         ELSE /\ last'.fetched
              /\ last'.at = pc
              /\ last'.opcode = Cell(memory, pc) * 256 + Cell(memory, pc + 1)
              /\ (StraightLine(last'.opcode) => pc' = pc + 2)
              /\ (Ran(last', 2) /\ sp < 16 => stack'[sp] = pc + 2)]_vars

\* C1 witness: a call was made with pc >= 4095 and fetched nothing.
C1_Witness == cycles > 0 /\ ~last.fetched /\ last.at = pc /\ pc >= 4095

Dec(timer) == IF timer > 0 THEN timer - 1 ELSE 0

\* C2: every call that fetches ticks both timers down by 1, floored at 0,
\* whatever the instruction (for LD DT,Vx and LD ST,Vx: the value just stored).
C2_TimersAlwaysTick ==
    [][CycleStep /\ last'.fetched =>
         /\ delayTimer' = Dec(IF RanXNN(last', 15, 21) THEN V[X(last')]
                              ELSE delayTimer)
         /\ soundTimer' = Dec(IF RanXNN(last', 15, 24) THEN V[X(last')]
                              ELSE soundTimer)]_vars

\* C3: SNE Vx,Vy (9xy0) ends 4 past the instruction when Vx # Vy, 2 past it
\* when Vx = Vy, and changes no register.
C3_SneSkips ==
    [][CycleStep /\ RanXYN(last', 9, 0) =>
         /\ pc' = last'.at + (IF V[X(last')] # V[Y(last')] THEN 4 ELSE 2)
         /\ V' = V]_vars

Carry(a, b) == IF a + b > 255 THEN 1 ELSE 0

\* C4 (as claimed): for all x # y, ADD Vx,Vy (8xy4) leaves VF = 1 iff the sum
\* of the old Vx and Vy exceeds 255, else 0, and Vx = that sum modulo 256.
C4_AddCarryAnyX ==
    [][CycleStep /\ RanXYN(last', 8, 4) /\ X(last') # Y(last') =>
         /\ V'[15] = Carry(V[X(last')], V[Y(last')])
         /\ V'[X(last')] = (V[X(last')] + V[Y(last')]) % 256]_vars

\* C4 (amended): the same for x in 0..14 and y # x in 0..15; for x = 15 the
\* sum modulo 256 is stored over the carry, so VF ends as the sum modulo 256.
C4_AddCarry ==
    [][CycleStep /\ RanXYN(last', 8, 4) /\ X(last') # Y(last') =>
         /\ X(last') # 15 => V'[15] = Carry(V[X(last')], V[Y(last')])
         /\ V'[X(last')] = (V[X(last')] + V[Y(last')]) % 256]_vars

\* C4 witness: ADD Vx,VF with x # 15 has run and has set the carry.
C4_Witness ==
    /\ RanXYN(last, 8, 4) /\ cycles = 3
    /\ X(last) # 15 /\ Y(last) = 15
    /\ V[15] = 1 /\ V[X(last)] = 99

\* C5: for x in 0..14 and y in 0..15, SUB Vx,Vy (8xy5) leaves VF = 1 iff the
\* old Vx > the old Vy, and Vx = (old Vx - old Vy) modulo 256.
C5_SubBorrow ==
    [][CycleStep /\ RanXYN(last', 8, 5) /\ X(last') # 15 =>
         /\ V'[15] = (IF V[X(last')] > V[Y(last')] THEN 1 ELSE 0)
         /\ V'[X(last')] = (V[X(last')] - V[Y(last')]) % 256]_vars

\* C6: for x in 0..14 and y in 0..15, SUBN Vx,Vy (8xy7) leaves VF = 1 iff the
\* old Vy > the old Vx, and Vx = (old Vy - old Vx) modulo 256.
C6_SubnBorrow ==
    [][CycleStep /\ RanXYN(last', 8, 7) /\ X(last') # 15 =>
         /\ V'[15] = (IF V[Y(last')] > V[X(last')] THEN 1 ELSE 0)
         /\ V'[X(last')] = (V[Y(last')] - V[X(last')]) % 256]_vars

StackWrites(log) == { a[3] : a \in { b \in log.acc : b[1] = "stack" /\ b[2] = "w" } }

StackReads(log) == { a[3] : a \in { b \in log.acc : b[1] = "stack" /\ b[2] = "r" } }

\* C7: a CALL (2nnn) with fewer than 16 return addresses stacked pushes the
\* address after the CALL and jumps; a CALL with 16 stacked (the 17th in a
\* row) leaves sp at 16, the 16 entries as they are and pc after the CALL; no
\* call of emulate_cycle writes the stack at an index >= 16.
C7_CallOverflow ==
    [][CycleStep =>
         /\ \A k \in StackWrites(last') : k < 16
         /\ Ran(last', 2) /\ sp < 16 =>
              /\ sp' = sp + 1
              /\ stack' = [stack EXCEPT ![sp] = last'.at + 2]
              /\ pc' = last'.opcode % 4096
         /\ Ran(last', 2) /\ sp >= 16 =>
              /\ sp' = 16
              /\ stack' = stack
              /\ pc' = last'.at + 2
              /\ StackWrites(last') = {}]_vars

\* C7 witness: the 17th CALL of a chain has overflowed, the 16 return
\* addresses of the chain are on the stack.
C7_Witness ==
    /\ Ran(last, 2) /\ last.ret /\ cycles = 17
    /\ sp = 16 /\ pc = last.at + 2
    /\ \A k \in 0..15 : stack[k] = 514 + 2 * k

\* C8: RET (00EE) with sp = 0 advances pc by 2 and does nothing else: sp stays
\* 0, the stack, the registers, I, memory and the framebuffer keep their
\* values, and the stack is not read.
C8_RetUnderflow ==
    [][CycleStep /\ last'.fetched /\ last'.opcode = 238 /\ sp = 0 =>
         /\ pc' = pc + 2
         /\ sp' = 0
         /\ UNCHANGED <<memory, V, I, stack, delayTimer, soundTimer, gfx, key,
                        draw_flag>>
         /\ StackReads(last') = {}]_vars

\* C8 witness: RET has run on the empty stack.
C8_Witness ==
    /\ last.fetched /\ last.opcode = 238 /\ last.err = "Stack Underflow"
    /\ sp = 0 /\ pc = last.at + 2

Pressed == { i \in 0..15 : key[i] # 0 }

\* C9: LD Vx,K (Fx0A) with no key pressed leaves pc at the instruction and the
\* registers, I, the stack and memory as they are; with a key pressed it
\* stores the lowest pressed index in Vx, changes no other register and ends
\* after the instruction.
C9_WaitKey ==
    [][CycleStep /\ RanXNN(last', 15, 10) =>
         IF Pressed = {}
         THEN /\ pc' = pc
              /\ UNCHANGED <<V, I, sp, stack, memory>>
         ELSE /\ \E low \in Pressed :
                    /\ \A i \in Pressed : low <= i
                    /\ V' = [V EXCEPT ![X(last')] = low]
              /\ pc' = pc + 2
              /\ UNCHANGED <<I, sp, stack, memory>>]_vars

\* C9 witness: the instruction waited, then keys 0 and 1 were both down and
\* Vx received 0.
C9_Witness ==
    /\ RanXNN(last, 15, 10) /\ cycles >= 3
    /\ key[0] # 0 /\ key[1] # 0
    /\ V[X(last)] = 0 /\ pc = last.at + 2

\* C10: with I + x < 4096, LD V0..Vx,[I] (Fx65) sets Vi = memory[I + i] for
\* i in 0..x and changes no other register, I or memory; LD [I],V0..Vx (Fx55)
\* sets memory[I + i] = Vi for i in 0..x and changes no other cell, no
\* register, not I; Fx65 right after Fx55 leaves the registers as they were,
\* Fx55 right after Fx65 leaves memory as it was.
C10_DumpLoad ==
    [][CycleStep /\ last'.fetched /\ I + X(last') < 4096 =>
         /\ RanXNN(last', 15, 101) =>
              /\ V' = [i \in 0..15 |->
                         IF i <= X(last') THEN Cell(memory, I + i) ELSE V[i]]
              /\ UNCHANGED <<I, memory>>
              /\ RanXNN(last, 15, 85) /\ X(last) = X(last') /\ ~last.ret
                   => V' = V
         /\ RanXNN(last', 15, 85) =>
              /\ \A a \in 0..4095 :
                    Cell(memory', a) =
                        IF a >= I /\ a <= I + X(last') THEN V[a - I]
                        ELSE Cell(memory, a)
              /\ UNCHANGED <<I, V>>
              /\ RanXNN(last, 15, 101) /\ X(last) = X(last') /\ ~last.ret
                   => memory' = memory]_vars

\* C10 witness: Fx65 with x = 15 has loaded the 16 registers from the font,
\* right after Fx55 with x = 15 had stored them at the same I.
C10_Witness ==
    /\ RanXNN(last, 15, 101) /\ ~last.ret /\ X(last) = 15
    /\ \A i \in 0..15 : V[i] = Cell(memory, I + i)
    /\ V[0] = 255 /\ V[15] = 7

\* the sprite rows DRW reads lie inside memory
SpriteInMemory(log) == \A a \in log.acc : a[1] = "memory" => a[3] < 4096

\* the second of two DRW in a row, of the same opcode and the same origin
SecondDraw ==
    /\ CycleStep /\ Ran(last', 13) /\ Ran(last, 13)
    /\ last'.opcode = last.opcode
    /\ V[X(last)] = last.before.V[X(last)]
    /\ V[Y(last)] = last.before.V[Y(last)]
    /\ SpriteInMemory(last) /\ SpriteInMemory(last')

\* C11: DRW Vx,Vy,n (Dxyn) executed twice with the same origin, I and sprite
\* bytes leaves the framebuffer as it was before the first of the two, and
\* leaves VF = 1 iff the first turned a pixel from 0 to 1.
C11_DrawTwice ==
    [][SecondDraw =>
         /\ gfx' = last.before.gfx
         /\ V'[15] = (IF \E p \in 0..2047 :
                            Cell(last.before.gfx, p) = 0 /\ Cell(gfx, p) = 1
                      THEN 1 ELSE 0)]_vars

\* C11 witness: a sprite of 3 rows was drawn twice over a lit framebuffer; the
\* first turned pixels on and others off, the second restored the framebuffer
\* and reported the collision.
C11_Witness ==
    /\ Ran(last, 13) /\ cycles = 7 /\ last.opcode % 16 = 3
    /\ X(last) = 0 /\ V[0] = 60 /\ V[1] = 30
    /\ gfx # << >> /\ gfx # last.before.gfx
    /\ \E p \in DOMAIN gfx : Cell(last.before.gfx, p) = 0
    /\ \E p \in DOMAIN last.before.gfx : Cell(gfx, p) = 0
    /\ V[15] = 1

\* C12: LD B,Vx (Fx33) with I, I + 1 and I + 2 inside memory stores the
\* hundreds, tens and units of Vx there (100 * memory[I] + 10 * memory[I + 1]
\* + memory[I + 2] = Vx) and changes no other memory cell, not I, no register.
C12_Bcd ==
    [][CycleStep /\ RanXNN(last', 15, 51) /\ I + 2 < 4096 =>
         LET v == V[X(last')]
         IN  /\ Cell(memory', I) = v \div 100
             /\ Cell(memory', I + 1) = (v \div 10) % 10
             /\ Cell(memory', I + 2) = v % 10
             /\ 100 * Cell(memory', I) + 10 * Cell(memory', I + 1)
                  + Cell(memory', I + 2) = v
             /\ \A a \in 0..4095 :
                   a \notin {I, I + 1, I + 2} => Cell(memory', a) = Cell(memory, a)
             /\ UNCHANGED <<I, V>>]_vars

\* C12 witness: LD B,V0 has run with V0 = 234 and has stored 2, 3, 4.
C12_Witness ==
    /\ RanXNN(last, 15, 51) /\ V[X(last)] = 234
    /\ Cell(memory, I) = 2 /\ Cell(memory, I + 1) = 3 /\ Cell(memory, I + 2) = 4

\* C13: CLS (00E0) leaves every one of the 64 x 32 pixels 0 and the redraw
\* flag true.
C13_ClsRedraw ==
    [][CycleStep /\ last'.fetched /\ last'.opcode = 224 =>
         /\ \A p \in 0..(CHIP8_VIDEO_BUFFER_SIZE - 1) : Cell(gfx', p) = 0
         /\ draw_flag' = TRUE]_vars

\* C14: the redraw flag is false after construction; every DRW (Dxyn) leaves
\* it true, also a DRW that changes no pixel; a step of emulate_cycle, set_key
\* or get_screen_pixel never takes it from true to false, only render_screen
\* does.
C14_RedrawFlag ==
    /\ draw_flag = FALSE
    /\ [][/\ CycleStep /\ Ran(last', 13) => draw_flag' = TRUE
          /\ draw_flag /\ (CycleStep \/ SetKey \/ GetScreenPixel)
               => draw_flag' = TRUE
          /\ draw_flag /\ ~draw_flag' => RenderScreen]_vars

\* C14 witness: a DRW of height 0 has run on a framebuffer with lit pixels,
\* has changed none and has left the redraw flag true.
C14_Witness ==
    /\ Ran(last, 13) /\ last.opcode % 16 = 0
    /\ gfx = last.before.gfx /\ gfx # << >>
    /\ draw_flag = TRUE

\* the files whose loading is compared with the file: the ones too long, the
\* ones of exactly 3584 bytes, and short ones
LoadSample == LongFiles \cup EdgeFiles \cup StackFiles

C16_SetKey ==
    /\ [](\A value \in {0, 1} :
            /\ \A index \in {16, 17, 255} : set_key(key, index, value) = key
            /\ \A index \in 0..15 :
                  set_key(key, index, value) = [key EXCEPT ![index] = value])
    /\ [][SetKey =>
            /\ \E index \in 0..15, value \in {0, 1} :
                  key' = [key EXCEPT ![index] = value]
            /\ UNCHANGED <<memory, V, I, pc, stack, sp, delayTimer,
                           soundTimer, gfx, draw_flag, loaded_rom_size>>]_vars

\* C16 witness: set_key(1, 1) has acted and key 0 is still up.
C16_Witness == running /\ key[1] = 1 /\ key[0] = 0

\* the patterns of the instruction table
InTable(opcode) ==
    LET a  == Family(opcode)
        n  == opcode % 16
        nn == opcode % 256
    IN  \/ opcode \in {224, 238}
        \/ a \in {1, 2, 3, 4, 6, 7, 10, 11, 12, 13}
        \/ a \in {5, 9} /\ n = 0
        \/ a = 8 /\ n \in {0, 1, 2, 3, 4, 5, 6, 7, 14}
        \/ a = 14 /\ nn \in {158, 161}
        \/ a = 15 /\ nn \in {7, 10, 21, 24, 30, 41, 51, 85, 101}

\* C17: a step that fetches an opcode outside the instruction table ends with
\* pc 2 past the instruction and with memory, the registers, I, the stack,
\* sp, the framebuffer, the keys and the redraw flag as they were.
C17_UnknownNoOp ==
    [][CycleStep /\ last'.fetched /\ ~InTable(last'.opcode) =>
         /\ pc' = pc + 2
         /\ UNCHANGED <<memory, V, I, stack, sp, gfx, key, draw_flag>>]_vars

MemoryWrites(log) ==
    { a[3] : a \in { b \in log.acc : b[1] = "memory" /\ b[2] = "w" } }

\* C18: LD [I],V0..Vx (Fx55) and LD V0..Vx,[I] (Fx65) with I + x >= 4096 are
\* aborted: no memory byte is written, no register changes, I stays and pc
\* ends 2 past the instruction.
C18_DumpAbort ==
    [][/\ CycleStep
       /\ RanXNN(last', 15, 85) \/ RanXNN(last', 15, 101)
       /\ I + X(last') >= 4096
       => /\ UNCHANGED <<memory, V, I>>
          /\ pc' = pc + 2
          /\ MemoryWrites(last') = {}
          /\ last'.err = "I + x exceeded memory range"]_vars

\* C18 witness: Fx55 with x = 1 was aborted at I = 4095, with V0 = 255 to
\* store.
C18_Witness ==
    /\ RanXNN(last, 15, 85) /\ last.ret /\ X(last) = 1
    /\ I = 4095 /\ V[0] = 255 /\ Cell(memory, 4095) = 0
    /\ pc = last.at + 2

\* C19: the consumers of I check its bounds: a DRW (Dxyn) reads memory only
\* at addresses I + row < 4096 and LD B,Vx (Fx33) writes memory only at
\* addresses I, I + 1, I + 2 < 4096; an access that would fall at 4096 or
\* above is not made.
C19_IndexBounds ==
    [][CycleStep /\ (Ran(last', 13) \/ RanXNN(last', 15, 51)) =>
         \A a \in last'.acc : a[1] = "memory" => a[3] < 4096]_vars

AtLeast0(v) == IF v > 0 THEN v ELSE 0

\* what C20 says of one timer: t before the step and t1 after it, set is
\* whether the step executed the instruction that copies Vx to this timer
TimerRule(t, t1, set, v) ==
    /\ t1 >= 0
    /\ t1 >= t - 1
    /\ t1 > t => set
    /\ set => t1 = AtLeast0(v - 1)

\* C20 (as claimed): in every step each timer ends at 0 or above and at its
\* old value minus 1 or above, ends above its old value only if the step
\* executed LD DT,Vx (Fx15) resp. LD ST,Vx (Fx18), and ends at max(Vx - 1, 0)
\* when the step executed that instruction.
C20_TimerStepAny ==
    [][CycleStep =>
         /\ TimerRule(delayTimer, delayTimer', RanXNN(last', 15, 21),
                      V[X(last')])
         /\ TimerRule(soundTimer, soundTimer', RanXNN(last', 15, 24),
                      V[X(last')])]_vars

\* the same, where a step that copies Vx to the timer is bound only to end
\* with max(Vx - 1, 0), which may be any amount below the old value
TimerRuleSet(t, t1, set, v) ==
    IF set THEN t1 = AtLeast0(v - 1)
    ELSE t1 >= 0 /\ t1 >= t - 1 /\ t1 <= t

\* C20 (amended): a step that executes LD DT,Vx (Fx15) resp. LD ST,Vx (Fx18)
\* ends with that timer at max(Vx - 1, 0), above or below its old value; in
\* every other step the timer ends at 0 or above, at its old value or at its
\* old value minus 1.
C20_TimerStep ==
    [][CycleStep =>
         /\ TimerRuleSet(delayTimer, delayTimer', RanXNN(last', 15, 21),
                         V[X(last')])
         /\ TimerRuleSet(soundTimer, soundTimer', RanXNN(last', 15, 24),
                         V[X(last')])]_vars

\* C20 witness: LD DT,V2 with V2 = 0 has taken the delay timer from 38 to 0
\* while the sound timer ticked from 39 to 38.
C20_Witness ==
    /\ RanXNN(last, 15, 21) /\ X(last) = 2 /\ V[2] = 0 /\ cycles = 5
    /\ delayTimer = 0 /\ soundTimer = 38

\* what the claims say of a DRW Vx,Vy,n that starts in the current state: its
\* origin, the rows it draws, the cell and the sprite bit of row, col
OriginX(log) == V[X(log)] % 64

OriginY(log) == V[Y(log)] % 32

RowsDrawn(log) ==
    { row \in 0..15 : row < log.opcode % 16 /\ OriginY(log) + row <= 31 }

CellOf(log, row, col) ==
    (OriginY(log) + row) * 64 + ((OriginX(log) + col) % 64)

SpriteBit(row, col) == (Cell(memory, I + row) \div Pow2(7 - col)) % 2

\* C21: a DRW (Dxyn) leaves VF = 1 iff a sprite bit 1 of a drawn row met a
\* pixel that was 1, else 0, whatever VF was; every drawn pixel ends as its
\* old value XOR the sprite bit; every framebuffer cell is 0 or 1 in every
\* reachable state.
C21_DrawCollision ==
    /\ [](\A p \in DOMAIN gfx : gfx[p] \in {0, 1})
    /\ [][CycleStep /\ Ran(last', 13) /\ SpriteInMemory(last') =>
            LET hits == { rc \in RowsDrawn(last') \X (0..7) :
                            /\ SpriteBit(rc[1], rc[2]) = 1
                            /\ Cell(gfx, CellOf(last', rc[1], rc[2])) = 1 }
            IN  /\ V'[15] = (IF hits # {} THEN 1 ELSE 0)
                /\ \A rc \in RowsDrawn(last') \X (0..7) :
                      Cell(gfx', CellOf(last', rc[1], rc[2])) =
                          (Cell(gfx, CellOf(last', rc[1], rc[2]))
                             + SpriteBit(rc[1], rc[2])) % 2]_vars

\* C21 witness: digit 1 was drawn over digit 0: pixels collided, others were
\* turned on, and VF is 1.
C21_Witness ==
    /\ Ran(last, 13) /\ cycles = 6 /\ I = 85 /\ last.opcode % 16 = 3
    /\ V[15] = 1 /\ gfx # << >> /\ gfx # last.before.gfx
    /\ \E p \in DOMAIN gfx : Cell(last.before.gfx, p) = 0

\* C22: a DRW (Dxyn) with origin x0 = Vx mod 64, y0 = Vy mod 32 changes
\* pixels only in the rows y0 + row with row < n and y0 + row <= 31 (none
\* above y0, none wrapped to the top) and there only in the 8 columns
\* (x0 + col) mod 64, which wrap around the right edge; with the sprite inside
\* memory the pixels changed are exactly those cells whose sprite bit is 1.
C22_DrawFrame ==
    [][CycleStep /\ Ran(last', 13) =>
         LET cells == { CellOf(last', rc[1], rc[2]) :
                          rc \in RowsDrawn(last') \X (0..7) }
             ones  == { CellOf(last', rc[1], rc[2]) :
                          rc \in { q \in RowsDrawn(last') \X (0..7) :
                                     SpriteBit(q[1], q[2]) = 1 } }
             changed == { p \in 0..(CHIP8_VIDEO_BUFFER_SIZE - 1) :
                            Cell(gfx', p) # Cell(gfx, p) }
         IN  /\ changed \subseteq cells
             /\ \A p \in changed : p \div 64 >= OriginY(last')
             /\ SpriteInMemory(last') => changed = ones]_vars

\* C22 witness: digit 0 was drawn at (63, 30): its rows 30 and 31 are on the
\* screen with column 63 continued in columns 0..2, and row 0 is empty.
C22_Witness ==
    /\ Ran(last, 13) /\ cycles = 4 /\ last.opcode % 16 = 5
    /\ V[0] = 255 /\ V[1] = 30
    /\ DOMAIN gfx = {1983, 1920, 1921, 1922, 2047, 1986}

\* the step executed a CALL / a RET (it was not aborted)
Called(log) == Ran(log, 2) /\ ~log.ret

Returned(log) == log.fetched /\ log.opcode = 238 /\ ~log.ret

\* C23: the stack is a LIFO that only CALL and RET change: an executed CALL
\* (2nnn) stores the address after it at stack[sp] and adds 1 to sp; an
\* executed RET (00EE) takes 1 from sp and sets pc to the address stored by
\* the latest CALL not yet returned from; no other step changes sp or a stack
\* entry; the entries below sp are the return addresses of the CALLs not yet
\* returned from, oldest first.
C23_StackLifo ==
    /\ [](/\ Len(pending) = sp
          /\ \A i \in 1..Len(pending) : stack[i - 1] = pending[i])
    /\ [][IF CycleStep /\ Called(last')
          THEN /\ sp' = sp + 1
               /\ stack' = [stack EXCEPT ![sp] = last'.at + 2]
          ELSE IF CycleStep /\ Returned(last')
          THEN /\ sp' = sp - 1
               /\ stack' = stack
               /\ pc' = pending[Len(pending)]
          ELSE UNCHANGED <<sp, stack>>]_vars

\* C23 witness: three nested CALLs were followed by three RETs; the last RET
\* has come back to 514, the address after the first CALL.
C23_Witness ==
    /\ Returned(last) /\ cycles = 6 /\ last.at = 518
    /\ sp = 0 /\ pc = 514
    /\ stack[0] = 514 /\ stack[1] = 518 /\ stack[2] = 522

\* C24: 0 <= I < 4096 in every reachable state: LD I,nnn (Annn) assigns nnn,
\* at most 0xFFF; LD F,Vx (Fx29) assigns at most 0x50 + 75, or 0; ADD I,Vx
\* (Fx1E) assigns I + Vx, or 0 when I + Vx >= 4096.
C24_IndexInMemory ==
    /\ [](I >= 0 /\ I < 4096)
    /\ [][CycleStep =>
            /\ Ran(last', 10) => I' = last'.opcode % 4096
            /\ RanXNN(last', 15, 41) =>
                  I' = (IF V[X(last')] >= 16 THEN 0
                        ELSE 80 + 5 * V[X(last')])
                  /\ I' <= 80 + 75
            /\ RanXNN(last', 15, 30) =>
                  I' = (IF I + V[X(last')] >= 4096 THEN 0
                        ELSE I + V[X(last')])]_vars

\* C24 witness: ADD I,Vx with I = 3841 and Vx = 255 has reset I to 0.
C24_Witness ==
    /\ RanXNN(last, 15, 30) /\ last.err = "I exceeded memory range"
    /\ cycles = 3 /\ V[X(last)] = 255 /\ I = 0
    /\ Cell(memory, 512) * 256 + Cell(memory, 513) = 10 * 4096 + 3841

\* C25: SKP Vx (Ex9E) and SKNP Vx (ExA1) read the key array only at an index
\* in 0..15, whatever Vx is.
C25_KeyIndexBounds ==
    [][CycleStep /\ (RanXNN(last', 14, 158) \/ RanXNN(last', 14, 161)) =>
         \A a \in last'.acc : a[1] = "key" => a[3] \in 0..15]_vars

\* a step that is a call of emulate_cycle, in a run without end
CallStep == cycles' # cycles

\* C26: when emulate_cycle is called for ever and LD ST,Vx (Fx18) is executed
\* only finitely often, play_sound() is false from some call on, for ever.
C26_SoundEnds ==
    ([]<><<CallStep>>_vars
       /\ <>[][~(CallStep /\ RanXNN(last', 15, 24))]_vars)
    => <>[](~play_sound)

==========================================================================
